---- MODULE Spec2Model ----
(***************************************************************************)
(* Model of AssistantService (src/main/services/assistantService/index.ts) *)
(* The service bridges a Google Assistant adapter (an event emitter that   *)
(* accepts start commands and hands out conversation handles) to the       *)
(* renderer (MainIpcBroker notifications) and to a host-supplied handler   *)
(* set.  Everything runs on one event loop, so every listener is one       *)
(* atomic action.                                                          *)
(***************************************************************************)
EXTENDS Integers, Sequences, FiniteSets

\* ------------------------------------------------------------------ bounds
MaxInit    == 2   \* successful initialize() calls (adapters constructed)
MaxStarts  == 2   \* start commands issued to the adapters (turns begun)
MaxPrompts == 3   \* OAuth prompts (tokenInputHandler calls)
MaxCodes   == 3   \* OAuth codes a callback is handed

\* ------------------------------------------------------------------ values
\* JavaScript `undefined` for an optional string
Unset == "<undefined>"

\* text the host / the backend can supply
Texts == {"weather today", "turn on lights"}

\* OAuth codes the user submits and authorization URLs the auth layer supplies
OauthCodes == {"code-A", "code-B"}
AuthUrls == {"https://auth/1", "https://auth/2"}

\* arguments of invokeAssistant and of the invoke command: absent, empty, text
QueryArgs == {Unset, ""} \cup Texts

\* byte chunks the adapter emits (Uint8Array contents)
Chunks == {<<1>>, <<2, 255>>}

\* screen payloads the adapter emits (bytes of a UTF-8 document)
ScreenBytes == {<<>>, <<79, 75>>}

NoBytes == <<>>

\* ----------------------------------------------------------------- state
VARIABLES
  assistantApiDelegate, \* 0 = undefined, k = the k-th adapter constructed
  handlers,             \* 0 = constructor's no-op set, k = set given to the k-th initialize
  conversation,         \* 0 = undefined, h = conversation handle h
  textQuery,            \* config.conversation.textQuery
  ipcListeners,         \* how many times the three host-command listeners are registered
  pending,              \* start commands the adapters have not yet answered by "started"
  convs,                \* handle -> the adapter-side conversation object
  oauthCallbacks,       \* prompt -> the codes its oauthValidationCallback has been handed
  last                  \* the operation that ran last, its inputs and what it did

vars == <<assistantApiDelegate, handlers, conversation, textQuery, ipcListeners,
          pending, convs, oauthCallbacks, last>>

Handles  == 1..Len(convs)

\* ------------------------------------------------------- observable effects
\* One record shape for every effect, so any two effects can be compared.
Eff(kind, name, h, text, bytes, flag) ==
  [kind |-> kind, name |-> name, h |-> h, text |-> text, bytes |-> bytes, flag |-> flag]

\* MainIpcBroker.sendIpcMessageToRenderer(channel, payload)
Notify(name, text, bytes, flag) == Eff("notify", name, 0, text, bytes, flag)
\* this.handlers.<name>(arg)
Call(name, text, bytes)         == Eff("call", name, 0, text, bytes, FALSE)
\* this.assistantApiDelegate.start(this.config.conversation) on adapter a
Start(a, tq)                    == Eff("start", "start", a, tq, NoBytes, FALSE)
\* conversation.end() on handle h
EndCmd(h)                       == Eff("end", "end", h, "", NoBytes, FALSE)
\* conversation.write(buffer) on handle h
WriteCmd(h, bytes)              == Eff("write", "write", h, "", bytes, FALSE)

\* oauthValidationCallback(oauthCode) of prompt p
Callback(p, code)               == Eff("callback", "oauthValidationCallback", p, code, NoBytes, FALSE)

\* the effects of one kind / name among a sequence of effects
OfKind(effs, kind) == SelectSeq(effs, LAMBDA e : e.kind = kind)
Named(effs, kind, name) == SelectSeq(effs, LAMBDA e : e.kind = kind /\ e.name = name)

\* ---------------------------------------------------------- pure helpers
\* JavaScript truthiness of an optional string: `if (textQuery)`
Truthy(s) == s # Unset /\ s # ""

\* `query ?? ''`
OrEmpty(s) == IF s = Unset THEN "" ELSE s

\* Buffer.from(data): a fresh buffer holding each element of data modulo 256
BufferFrom(data) == [i \in DOMAIN data |-> data[i] % 256]

\* one byte decoded as UTF-8 text (ASCII range; anything else is U+FFFD, written "?")
CharOf(b) ==
  CASE b = 79 -> "O"
    [] b = 75 -> "K"
    [] OTHER  -> "?"

\* Buffer.prototype.toString(): the bytes decoded as text
RECURSIVE BufferToString(_)
BufferToString(bytes) ==
  IF bytes = <<>> THEN "" ELSE CharOf(Head(bytes)) \o BufferToString(Tail(bytes))

\* the part of the state a listener can change, with the effects so far
Cur(effs) ==
  [textQuery |-> textQuery, conversation |-> conversation, pending |-> pending,
   convs |-> convs, effects |-> effs, thrown |-> FALSE]

\* a handler call: the effect is recorded, and the exception escapes if it throws
CallHandler(st, call, throws) ==
  [st EXCEPT !.effects = Append(@, call),
             !.thrown = (handlers # 0 /\ throws)]

\* ------------------------------------------------------------ invokeAssistant
\* variant: optional chaining instead of the guard, so an undefined adapter is
\* silently skipped
invokeAssistant_NoGuard(tq, st) ==
  LET q == IF Truthy(tq) THEN tq ELSE Unset
  IN IF assistantApiDelegate = 0
       THEN [st EXCEPT !.textQuery = q]
       ELSE [st EXCEPT !.textQuery = q,
                       !.pending = @ + 1,
                       !.effects = Append(@, Start(assistantApiDelegate, q))]

\* variant: the else branch that resets textQuery is missing
invokeAssistant_NoReset(tq, st) ==
  IF assistantApiDelegate = 0
    THEN [st EXCEPT !.thrown = TRUE]
    ELSE LET q == IF Truthy(tq) THEN tq ELSE st.textQuery
         IN [st EXCEPT !.textQuery = q,
                       !.pending = @ + 1,
                       !.effects = Append(@, Start(assistantApiDelegate, q))]

\* variant: textQuery is cleared again right after the start command
invokeAssistant_ClearAfterUse(tq, st) ==
  IF assistantApiDelegate = 0
    THEN [st EXCEPT !.thrown = TRUE]
    ELSE LET q == IF Truthy(tq) THEN tq ELSE Unset
         IN [st EXCEPT !.textQuery = Unset,
                       !.pending = @ + 1,
                       !.effects = Append(@, Start(assistantApiDelegate, q))]

\* invokeAssistant(textQuery?): throws when the adapter is undefined; otherwise
\* sets or resets config.conversation.textQuery and issues the start command.
invokeAssistant(tq, st) ==
  IF assistantApiDelegate = 0
    THEN [st EXCEPT !.thrown = TRUE]
    ELSE LET q == IF Truthy(tq) THEN tq ELSE Unset
         IN [st EXCEPT !.textQuery = q,
                       !.pending = @ + 1,
                       !.effects = Append(@, Start(assistantApiDelegate, q))]

\* ------------------------------------------------------ host-command listeners
\* variant: the handler is told of the query before the turn is started
InvokeListener_QueryFirst(query, throws, st) ==
  LET s1 == [st EXCEPT !.effects =
               Append(@, Notify("assistant:stopAudioResponsePlayback", Unset, NoBytes, FALSE))]
      s2 == CallHandler(s1, Call("onQuery", OrEmpty(query), NoBytes), throws)
  IN IF s2.thrown THEN s2 ELSE invokeAssistant(query, s2)

\* 'assistant:invoke' listener
InvokeListener(query, throws, st) ==
  LET s1 == [st EXCEPT !.effects =
               Append(@, Notify("assistant:stopAudioResponsePlayback", Unset, NoBytes, FALSE))]
      s2 == invokeAssistant(query, s1)
  IN IF s2.thrown THEN s2
     ELSE CallHandler(s2, Call("onQuery", OrEmpty(query), NoBytes), throws)

\* 'assistant:micAudioData' listener: this.conversation?.write(Buffer.from(audioBuffer))
MicAudioDataListener(audioBuffer, st) ==
  IF st.conversation = 0 THEN st
  ELSE [st EXCEPT !.effects = Append(@, WriteCmd(st.conversation, BufferFrom(audioBuffer)))]

\* variant: the reference is not cleared after end()
EndConversationListener_NoClear(st) ==
  IF st.conversation = 0 THEN st
  ELSE [st EXCEPT !.convs[st.conversation].endCalls = @ + 1,
                  !.effects = Append(@, EndCmd(st.conversation))]

\* 'assistant:endConversation' listener: this.conversation?.end(); this.conversation = undefined
EndConversationListener(st) ==
  IF st.conversation = 0 THEN [st EXCEPT !.conversation = 0]
  ELSE [st EXCEPT !.convs[st.conversation].endCalls = @ + 1,
                  !.effects = Append(@, EndCmd(st.conversation)),
                  !.conversation = 0]

\* one host-command listener, by command
IpcListener(cmd, text, bytes, throws, st) ==
  CASE cmd = "assistant:invoke"          -> InvokeListener(text, throws, st)
    [] cmd = "assistant:micAudioData"    -> MicAudioDataListener(bytes, st)
    [] cmd = "assistant:endConversation" -> EndConversationListener(st)

\* MainIpcBroker.onRendererEmit registrations: a command runs the k listeners
\* registered for it in registration order; an exception ends the dispatch.
RECURSIVE RunIpc(_, _, _, _, _, _)
RunIpc(k, cmd, text, bytes, throws, st) ==
  IF k = 0 \/ st.thrown THEN st
  ELSE RunIpc(k - 1, cmd, text, bytes, throws, IpcListener(cmd, text, bytes, throws, st))

\* ------------------------------------------------------ handleConversation
\* variant: the listeners of earlier turns stay attached, so the h-th handle
\* carries h sets of listeners
handleConversation_Accumulate(h, st) ==
  [st EXCEPT !.conversation = h,
             !.convs[h].listeners = @ + h]

\* stores the handle and registers one set of listeners on it
handleConversation(h, st) ==
  [st EXCEPT !.conversation = h,
             !.convs[h].listeners = @ + 1]

\* variant: chunks are delivered only while the handle is the active conversation
AudioDataListener_SkipInactive(h, data, throws, st) ==
  IF st.conversation # h THEN st
  ELSE CallHandler(st, Call("onAudioData", "", BufferFrom(data)), throws)

\* conversation.on('audio-data')
AudioDataListener(h, data, throws, st) ==
  LET audioBuffer == BufferFrom(data)
  IN CallHandler(st, Call("onAudioData", "", audioBuffer), throws)

\* variant: onQuery is called for interim transcriptions too
TranscriptionListener_AlwaysQuery(h, text, done, throws, st) ==
  CallHandler([st EXCEPT !.effects =
                 Append(@, Notify("assistant:transcription", text, NoBytes, done))],
              Call("onQuery", text, NoBytes), throws)

\* conversation.on('transcription')
TranscriptionListener(h, text, done, throws, st) ==
  LET s1 == [st EXCEPT !.effects =
               Append(@, Notify("assistant:transcription", text, NoBytes, done))]
  IN IF done THEN CallHandler(s1, Call("onQuery", text, NoBytes), throws) ELSE s1

\* conversation.on('screen-data')
ScreenDataListener(h, data, throws, st) ==
  LET s1 == [st EXCEPT !.effects =
               Append(@, Notify("assistant:screenData", BufferToString(data), NoBytes, FALSE))]
  IN CallHandler(s1, Call("onScreenData", BufferToString(data), NoBytes), throws)

\* conversation.on('end-of-utterance')
EndOfUtteranceListener(h, st) ==
  [st EXCEPT !.effects = Append(@, Notify("assistant:endOfUtterance", Unset, NoBytes, FALSE))]

\* variant: the handler and the renderer are told only while the handle is the
\* stored conversation
EndedListener_OnlyActive(h, error, shouldContinueConversation, enableMic, throws, st) ==
  IF st.conversation # h THEN st
  ELSE LET s1 == [st EXCEPT !.effects =
                    Append(@, Notify("assistant:conversationEnded", Unset, NoBytes, FALSE))]
           s2 == CallHandler(s1, Call("onConversationEnded", "", NoBytes), throws)
       IN IF s2.thrown THEN s2
          ELSE IF shouldContinueConversation /\ enableMic
            THEN [s2 EXCEPT !.effects =
                    Append(@, Notify("assistant:startMic", Unset, NoBytes, FALSE))]
            ELSE s2

\* conversation.on('ended'); enableMic is the value the listener reads from
\* global.appConfig.enableMicOnImmediateResponse
EndedListener(h, error, shouldContinueConversation, enableMic, throws, st) ==
  LET s1 == [st EXCEPT !.effects =
               Append(@, Notify("assistant:conversationEnded", Unset, NoBytes, FALSE))]
      s2 == CallHandler(s1, Call("onConversationEnded", "", NoBytes), throws)
  IN IF s2.thrown THEN s2
     ELSE IF shouldContinueConversation /\ enableMic
       THEN [s2 EXCEPT !.effects =
               Append(@, Notify("assistant:startMic", Unset, NoBytes, FALSE))]
       ELSE s2

\* variant: an error on the stored conversation is treated as the end of the turn
ErrorListener_Terminal(h, st) ==
  IF st.conversation = h THEN [st EXCEPT !.conversation = 0] ELSE st

\* conversation.on('error'): console.error only
ErrorListener(h, st) == st

\* variant: a listener first checks that its handle is still the active conversation
ConvListener_IgnoreInactive(ev, h, text, bytes, flag, error, enableMic, throws, st) ==
  IF st.conversation # h THEN st
  ELSE CASE ev = "audio-data"       -> AudioDataListener(h, bytes, throws, st)
         [] ev = "transcription"    -> TranscriptionListener(h, text, flag, throws, st)
         [] ev = "screen-data"      -> ScreenDataListener(h, bytes, throws, st)
         [] ev = "end-of-utterance" -> EndOfUtteranceListener(h, st)
         [] ev = "ended"            -> EndedListener(h, error, flag, enableMic, throws, st)
         [] ev = "error"            -> ErrorListener(h, st)

\* one conversation listener, by event
ConvListener(ev, h, text, bytes, flag, error, enableMic, throws, st) ==
  CASE ev = "audio-data"       -> AudioDataListener(h, bytes, throws, st)
    [] ev = "transcription"    -> TranscriptionListener(h, text, flag, throws, st)
    [] ev = "screen-data"      -> ScreenDataListener(h, bytes, throws, st)
    [] ev = "end-of-utterance" -> EndOfUtteranceListener(h, st)
    [] ev = "ended"            -> EndedListener(h, error, flag, enableMic, throws, st)
    [] ev = "error"            -> ErrorListener(h, st)

\* the conversation object's emit: the k listener sets registered on the handle
\* run in registration order; an exception ends the dispatch.
RECURSIVE RunConv(_, _, _, _, _, _, _, _, _, _)
RunConv(k, ev, h, text, bytes, flag, error, enableMic, throws, st) ==
  IF k = 0 \/ st.thrown THEN st
  ELSE RunConv(k - 1, ev, h, text, bytes, flag, error, enableMic, throws,
               ConvListener(ev, h, text, bytes, flag, error, enableMic, throws, st))

\* ----------------------------------------------------------------- record
\* what the last operation was given, what it found, and what it did
Last(op, h, text, bytes, flag, error, enableMic, throws, st) ==
  [op |-> op, h |-> h, text |-> text, bytes |-> bytes, flag |-> flag,
   error |-> error, enableMic |-> enableMic, throws |-> throws,
   effects |-> st.effects, thrown |-> st.thrown,
   preConversation |-> conversation, preTextQuery |-> textQuery]

\* a fresh adapter-side conversation object
NewConv ==
  [listeners |-> 0, ended |-> FALSE, endCalls |-> 0]

\* the listener-changeable state after a listener run
Commit(st) ==
  /\ textQuery' = st.textQuery
  /\ conversation' = st.conversation
  /\ pending' = st.pending
  /\ convs' = st.convs

\* ------------------------------------------------------------------- Init
\* the state the constructor leaves
Init ==
  /\ assistantApiDelegate = 0
  /\ handlers = 0
  /\ conversation = 0
  /\ textQuery = Unset
  /\ ipcListeners = 0
  /\ pending = 0
  /\ convs = <<>>
  /\ oauthCallbacks = <<>>
  /\ last = Last("constructor", 0, "", NoBytes, FALSE, FALSE, FALSE, FALSE, Cur(<<>>))

\* ---------------------------------------------------------------- actions
\* variant: the host-command listeners are registered outside the try block,
\* so also when the adapter's construction throws
Initialize_RegisterAlways(ok) ==
  /\ ipcListeners < MaxInit
  /\ IF ok
       THEN /\ assistantApiDelegate' = ipcListeners + 1
            /\ handlers' = ipcListeners + 1
       ELSE UNCHANGED <<assistantApiDelegate, handlers>>
  /\ ipcListeners' = ipcListeners + 1
  /\ last' = Last("initialize", 0, "", NoBytes, ok, FALSE, FALSE, FALSE, Cur(<<>>))
  /\ UNCHANGED <<conversation, textQuery, pending, convs, oauthCallbacks>>

\* initialize(handlers): ok = whether `new GoogleAssistant(auth)` returns
Initialize(ok) ==
  /\ ok => ipcListeners < MaxInit
  /\ IF ok
       THEN /\ assistantApiDelegate' = ipcListeners + 1
            /\ handlers' = ipcListeners + 1
            /\ ipcListeners' = ipcListeners + 1
       ELSE UNCHANGED <<assistantApiDelegate, handlers, ipcListeners>>
  /\ last' = Last("initialize", 0, "", NoBytes, ok, FALSE, FALSE, FALSE, Cur(<<>>))
  /\ UNCHANGED <<conversation, textQuery, pending, convs, oauthCallbacks>>

\* a direct call of the public method invokeAssistant(textQuery?)
InvokeAssistant(tq) ==
  LET st == invokeAssistant(tq, Cur(<<>>))
  IN /\ st.pending + Len(convs) <= MaxStarts
     /\ Commit(st)
     /\ last' = Last("invokeAssistant", 0, tq, NoBytes, FALSE, FALSE, FALSE, FALSE, st)
     /\ UNCHANGED <<assistantApiDelegate, handlers, ipcListeners, oauthCallbacks>>

\* a host command arriving from the renderer
IpcCommand(cmd, text, bytes, throws) ==
  LET st == RunIpc(ipcListeners, cmd, text, bytes, throws, Cur(<<>>))
  IN /\ st.pending + Len(convs) <= MaxStarts
     /\ Commit(st)
     /\ last' = Last(cmd, 0, text, bytes, FALSE, FALSE, FALSE, throws, st)
     /\ UNCHANGED <<assistantApiDelegate, handlers, ipcListeners, oauthCallbacks>>

IpcInvoke == \E q \in QueryArgs, throws \in BOOLEAN :
  IpcCommand("assistant:invoke", q, NoBytes, throws)

IpcMicAudioData == \E b \in Chunks :
  IpcCommand("assistant:micAudioData", "", b, FALSE)

IpcEndConversation ==
  IpcCommand("assistant:endConversation", "", NoBytes, FALSE)

\* an adapter answers a start command: emits "started" with a fresh handle
\* (every adapter constructed has exactly one "started" listener)
AdapterStarted ==
  /\ pending > 0
  /\ LET h  == Len(convs) + 1
         s0 == [Cur(<<>>) EXCEPT !.pending = @ - 1,
                                 !.convs = Append(@, NewConv)]
         st == handleConversation(h, s0)
     IN /\ Commit(st)
        /\ last' = Last("started", h, "", NoBytes, FALSE, FALSE, FALSE, FALSE, st)
  /\ UNCHANGED <<assistantApiDelegate, handlers, ipcListeners, oauthCallbacks>>

\* the adapter emits an event on conversation handle h (nothing follows "ended")
ConvEvent(ev, h, text, bytes, flag, error, enableMic, throws) ==
  /\ h \in Handles
  /\ ~convs[h].ended
  /\ LET s0 == [Cur(<<>>) EXCEPT !.convs[h].ended = (ev = "ended")]
         st == RunConv(convs[h].listeners, ev, h, text, bytes, flag, error, enableMic, throws, s0)
     IN /\ Commit(st)
        /\ last' = Last(ev, h, text, bytes, flag, error, enableMic, throws, st)
  /\ UNCHANGED <<assistantApiDelegate, handlers, ipcListeners, oauthCallbacks>>

ConvAudioData == \E h \in Handles, data \in Chunks, throws \in BOOLEAN :
  ConvEvent("audio-data", h, "", data, FALSE, FALSE, FALSE, throws)

ConvTranscription == \E h \in Handles, t \in Texts, done \in BOOLEAN :
  \E throws \in (IF done THEN BOOLEAN ELSE {FALSE}) :
    ConvEvent("transcription", h, t, NoBytes, done, FALSE, FALSE, throws)

ConvScreenData == \E h \in Handles, data \in ScreenBytes, throws \in BOOLEAN :
  ConvEvent("screen-data", h, "", data, FALSE, FALSE, FALSE, throws)

ConvEndOfUtterance == \E h \in Handles :
  ConvEvent("end-of-utterance", h, "", NoBytes, FALSE, FALSE, FALSE, FALSE)

ConvEnded == \E h \in Handles, error \in BOOLEAN, sc \in BOOLEAN, enableMic \in BOOLEAN, throws \in BOOLEAN :
  ConvEvent("ended", h, "", NoBytes, sc, error, enableMic, throws)

ConvError == \E h \in Handles :
  ConvEvent("error", h, "", NoBytes, FALSE, TRUE, FALSE, FALSE)

\* adapter-level "ready" and "error": the listeners are no-ops
AdapterReadyOrError(ev) ==
  /\ ipcListeners > 0
  /\ last' = Last(ev, 0, "", NoBytes, FALSE, ev = "adapter-error", FALSE, FALSE, Cur(<<>>))
  /\ UNCHANGED <<assistantApiDelegate, handlers, conversation, textQuery, ipcListeners,
                 pending, convs, oauthCallbacks>>

Next ==
  \/ \E ok \in BOOLEAN : Initialize(ok)
  \/ \E tq \in QueryArgs : InvokeAssistant(tq)
  \/ IpcInvoke
  \/ IpcMicAudioData
  \/ IpcEndConversation
  \/ AdapterStarted
  \/ ConvAudioData
  \/ ConvTranscription
  \/ ConvScreenData
  \/ ConvEndOfUtterance
  \/ ConvEnded
  \/ ConvError
  \/ \E ev \in {"adapter-ready", "adapter-error"} : AdapterReadyOrError(ev)

Spec == Init /\ [][Next]_vars

\* ------------------------------------------------------ token-input relay
\* the 'assistant:oauthCode' listener registered by prompt p: hands the code
\* to that prompt's callback
OauthCodeListener(p, oauthCode, cbs, effs) ==
  [cbs |-> [cbs EXCEPT ![p] = Append(@, oauthCode)],
   effs |-> Append(effs, Callback(p, oauthCode))]

\* MainIpcBroker.onRendererEmit('assistant:oauthCode', ...) registrations: like
\* the host-command listeners, every listener registered so far stays
\* registered and runs for each command, in registration order
RECURSIVE RunOauth(_, _, _, _, _)
RunOauth(p, n, oauthCode, cbs, effs) ==
  IF p > n THEN [cbs |-> cbs, effs |-> effs]
  ELSE LET r == OauthCodeListener(p, oauthCode, cbs, effs)
       IN RunOauth(p + 1, n, oauthCode, r.cbs, r.effs)

\* tokenInputHandler(oauthValidationCallback, authUrl): publishes the prompt and
\* registers one more 'assistant:oauthCode' listener, bound to this callback
TokenInputHandler(authUrl) ==
  /\ Len(oauthCallbacks) < MaxPrompts
  /\ oauthCallbacks' = Append(oauthCallbacks, <<>>)
  /\ last' = Last("tokenInputHandler", Len(oauthCallbacks) + 1, authUrl, NoBytes,
                  FALSE, FALSE, FALSE, FALSE,
                  Cur(<<Notify("assistant:showOauthTokenPrompt", authUrl, NoBytes, FALSE)>>))
  /\ UNCHANGED <<assistantApiDelegate, handlers, conversation, textQuery, ipcListeners,
                 pending, convs>>

\* the renderer submits an OAuth code
IpcOauthCode(oauthCode) ==
  /\ \A p \in DOMAIN oauthCallbacks : Len(oauthCallbacks[p]) < MaxCodes
  /\ LET r == RunOauth(1, Len(oauthCallbacks), oauthCode, oauthCallbacks, <<>>)
     IN /\ oauthCallbacks' = r.cbs
        /\ last' = Last("assistant:oauthCode", 0, oauthCode, NoBytes,
                        FALSE, FALSE, FALSE, FALSE, Cur(r.effs))
  /\ UNCHANGED <<assistantApiDelegate, handlers, conversation, textQuery, ipcListeners,
                 pending, convs>>

\* the relay is a static method that shares no state with the service: its
\* behaviours are those of the two actions above on their own
NextOauth ==
  \/ \E authUrl \in AuthUrls : TokenInputHandler(authUrl)
  \/ \E oauthCode \in OauthCodes : IpcOauthCode(oauthCode)

SpecOauth == Init /\ [][NextOauth]_vars

\* ================================================================== claims
InvokeOps == {"invokeAssistant", "assistant:invoke"}
ConvEvents == {"audio-data", "transcription", "screen-data", "end-of-utterance",
               "ended", "error"}

\* what the last operation did, by kind
Starts        == OfKind(last.effects, "start")
Notifications == OfKind(last.effects, "notify")
HandlerCalls  == OfKind(last.effects, "call")
Published(name) == Named(last.effects, "notify", name)
Called(name)    == Named(last.effects, "call", name)

\* the argument of invokeAssistant as the start command should carry it
Normalised(tq) == IF tq = Unset \/ tq = "" THEN Unset ELSE tq

\* the last operation was an adapter event on a handle the host had already
\* ended with an end-conversation command (so the reference had been dropped)
AfterHostEnd == last.op \in ConvEvents /\ convs[last.h].endCalls > 0

\* ------------------------------------------------------------------- C1
\* C1 (as claimed): the active-session reference is set only while the turn is
\* open; once the adapter's "ended" event for the stored handle has been
\* processed, `conversation` is unset.
C1_ConversationUnsetAfterEnded ==
  conversation # 0 => ~convs[conversation].ended

\* ------------------------------------------------------------------- C2
\* C2 (as claimed): after a host end-conversation command has dropped the
\* reference, an event the adapter still emits on that handle calls no handler
\* and publishes no notification.
C2_EventsAfterHostEndIgnored ==
  AfterHostEnd => last.effects = <<>>

\* C2 (amended): after a host end-conversation command has dropped the
\* reference, events the adapter still emits on that handle are relayed exactly
\* as on an active handle: audio-data reaches onAudioData, transcription,
\* screen-data and end-of-utterance are published (with onQuery for a final
\* transcription and onScreenData for screen data), "ended" publishes
\* conversation-ended and calls onConversationEnded; only the reference stays
\* dropped (no such event sets it again).
C2_EventsAfterHostEndRelayed ==
  AfterHostEnd =>
    /\ conversation = last.preConversation
    /\ conversation # last.h
    /\ CASE last.op = "audio-data" ->
              last.effects = <<Call("onAudioData", "", last.bytes)>>
         [] last.op = "transcription" ->
              /\ Published("assistant:transcription")
                   = <<Notify("assistant:transcription", last.text, NoBytes, last.flag)>>
              /\ Called("onQuery")
                   = IF last.flag THEN <<Call("onQuery", last.text, NoBytes)>> ELSE <<>>
         [] last.op = "screen-data" ->
              /\ Len(Published("assistant:screenData")) = 1
              /\ Len(Called("onScreenData")) = 1
         [] last.op = "end-of-utterance" ->
              Len(Published("assistant:endOfUtterance")) = 1
         [] last.op = "ended" ->
              /\ Len(Published("assistant:conversationEnded")) = 1
              /\ Len(Called("onConversationEnded")) = 1
         [] last.op = "error" ->
              last.effects = <<>>

\* C2 witness: an "ended" event on a host-ended handle was relayed to the
\* renderer and to the handler set
C2_Witness ==
  /\ AfterHostEnd
  /\ last.op = "ended"
  /\ conversation = 0
  /\ Len(Published("assistant:conversationEnded")) = 1
  /\ Len(Called("onConversationEnded")) = 1

\* ------------------------------------------------------------------- C3
\* C3: while the adapter is undefined, invokeAssistant (with or without a text
\* query) throws and issues no start command; it does nothing else either.
C3_InvokeWithoutAdapterThrows ==
  (last.op = "invokeAssistant" /\ assistantApiDelegate = 0) =>
    /\ last.thrown
    /\ Starts = <<>>
    /\ pending = 0

\* C3 witness: a text-query call on a service whose adapter is undefined threw
C3_Witness ==
  /\ last.op = "invokeAssistant"
  /\ assistantApiDelegate = 0
  /\ last.text \in Texts
  /\ last.thrown

\* ------------------------------------------------------------------- C4
\* C4: every start command carries the text query of the call that issued it:
\* the argument when it is a non-empty string, unset otherwise; a call on an
\* initialized service issues exactly one start command.
C4_StartCarriesOwnTextQuery ==
  last.op \in InvokeOps =>
    /\ \A i \in DOMAIN Starts : Starts[i].text = Normalised(last.text)
    /\ (last.op = "invokeAssistant" /\ assistantApiDelegate # 0) => Len(Starts) = 1

\* C4 witness: a microphone-driven call right after a text-driven one started
\* with textQuery unset
C4_Witness ==
  /\ last.op = "invokeAssistant"
  /\ last.text = Unset
  /\ last.preTextQuery \in Texts
  /\ Len(Starts) = 1
  /\ Starts[1].text = Unset

\* ------------------------------------------------------------------- C5
\* C5 (as claimed): once invokeAssistant has issued its start command and
\* returned, config.conversation.textQuery is unset again.
C5_TextQueryClearedAfterUse ==
  (last.op \in InvokeOps /\ Starts # <<>>) => textQuery = Unset

\* C5 (amended): textQuery is not cleared after use. Once invokeAssistant has
\* issued its start command and returned, config.conversation.textQuery holds
\* that call's text query (the argument when non-empty, unset otherwise), and
\* nothing but a later invokeAssistant call changes it.
C5_TextQueryHeldUntilNextInvoke ==
  /\ []((last.op \in InvokeOps /\ Starts # <<>>) => textQuery = Normalised(last.text))
  /\ [][textQuery' # textQuery => last'.op \in InvokeOps]_vars

\* C5 witness: the text of an earlier call is still in the configuration when
\* the adapter answers with "started"
C5_Witness ==
  /\ last.op = "started"
  /\ textQuery \in Texts

\* ------------------------------------------------------------------- C6
\* C6: a transcription event publishes the transcription object, and calls
\* handlers.onQuery exactly once with its text when done, not at all otherwise.
C6_TranscriptionRelay ==
  last.op = "transcription" =>
    /\ Published("assistant:transcription")
         = <<Notify("assistant:transcription", last.text, NoBytes, last.flag)>>
    /\ Called("onQuery") = IF last.flag THEN <<Call("onQuery", last.text, NoBytes)>> ELSE <<>>
    /\ Len(last.effects) = IF last.flag THEN 2 ELSE 1

\* C6 witness: a final transcription on the active conversation reached onQuery
C6_Witness ==
  /\ last.op = "transcription"
  /\ conversation = last.h
  /\ last.flag
  /\ Called("onQuery") = <<Call("onQuery", last.text, NoBytes)>>

\* ------------------------------------------------------------------- C7
\* C7: audio is passed through chunk by chunk. Each audio-data event, on any
\* handle, makes exactly one handlers.onAudioData call, carrying exactly that
\* event's bytes, before the next event is processed, and does nothing else;
\* so the chunks delivered are the chunks received, in order, none dropped,
\* duplicated or merged.
C7_AudioPassThrough ==
  last.op = "audio-data" =>
    /\ last.effects = <<Call("onAudioData", "", last.bytes)>>
    /\ conversation = last.preConversation

\* C7 witness: a two-byte chunk emitted on a handle that is no longer the
\* stored conversation was delivered unchanged
C7_Witness ==
  /\ last.op = "audio-data"
  /\ Len(last.bytes) = 2
  /\ conversation # last.h
  /\ Called("onAudioData") = <<Call("onAudioData", "", last.bytes)>>

\* ------------------------------------------------------------------- C8
\* C8 (as claimed): each "ended" event publishes exactly one conversation-ended
\* notification, calls onConversationEnded exactly once, and publishes
\* start-microphone if and only if shouldContinue and the configuration flag
\* are both true.
C8_EndedRelay ==
  last.op = "ended" =>
    /\ Len(Published("assistant:conversationEnded")) = 1
    /\ Len(Called("onConversationEnded")) = 1
    /\ Len(Published("assistant:startMic")) = IF last.flag /\ last.enableMic THEN 1 ELSE 0

\* ------------------------------------------------------------------- C9
\* C9 (as claimed): a "started" event never replaces a stored handle that has
\* not ended: when the new handle is stored, the reference was unset (host
\* end-conversation) or its handle had had its "ended" event.
C9_NoReplaceOfOpenHandle ==
  last.op = "started" =>
    \/ last.preConversation = 0
    \/ convs[last.preConversation].ended

C11_CallbackInvokedOncePerPrompt ==
  /\ \A p \in DOMAIN oauthCallbacks : Len(oauthCallbacks[p]) <= 1
  /\ last.op = "assistant:oauthCode" =>
       \A p \in DOMAIN oauthCallbacks : Len(oauthCallbacks[p]) = 1

\* ------------------------------------------------------------------ C12
\* C12 (as claimed): a handler that throws is contained: no exception leaves
\* the listener, and an "ended" event with shouldContinue and auto-continue
\* both true still publishes start-microphone.
C12_ThrowingHandlerContained ==
  last.throws =>
    /\ ~last.thrown
    /\ (last.op = "ended" /\ last.flag /\ last.enableMic)
         => Len(Published("assistant:startMic")) = 1

\* ------------------------------------------------------------------ C13
\* C13: with the listeners registered once, an invoke command publishes
\* stop-audio-playback, then issues one start command carrying the query, then
\* calls onQuery once with the query, or with "" when the query is absent.
C13_InvokeCommandOrder ==
  (last.op = "assistant:invoke" /\ ipcListeners = 1) =>
    last.effects =
      << Notify("assistant:stopAudioResponsePlayback", Unset, NoBytes, FALSE),
         Start(assistantApiDelegate, Normalised(last.text)),
         Call("onQuery", IF last.text = Unset THEN "" ELSE last.text, NoBytes) >>

\* C13 witness: an invoke command without a query ended with onQuery("")
C13_Witness ==
  /\ last.op = "assistant:invoke"
  /\ ipcListeners = 1
  /\ last.text = Unset
  /\ Len(last.effects) = 3
  /\ last.effects[3] = Call("onQuery", "", NoBytes)

\* ------------------------------------------------------------------ C14
\* C14: listeners do not accumulate over turns: every handle carries one set
\* of listeners, so each event on it is relayed once (one handler call and/or
\* one notification of its kind), however many turns came before.
C14_RelayedOncePerEvent ==
  /\ \A h \in Handles : convs[h].listeners = 1
  /\ last.op \in ConvEvents =>
       /\ Len(HandlerCalls) = (IF last.op \in {"audio-data", "screen-data", "ended"}
                                  \/ (last.op = "transcription" /\ last.flag)
                               THEN 1 ELSE 0)
       /\ Len(Published("assistant:transcription")) = (IF last.op = "transcription" THEN 1 ELSE 0)
       /\ Len(Published("assistant:screenData")) = (IF last.op = "screen-data" THEN 1 ELSE 0)
       /\ Len(Published("assistant:endOfUtterance")) = (IF last.op = "end-of-utterance" THEN 1 ELSE 0)
       /\ Len(Published("assistant:conversationEnded")) = (IF last.op = "ended" THEN 1 ELSE 0)
       /\ Len(Published("assistant:startMic")) <= 1

\* C14 witness: after a completed first turn, a final transcription on the
\* second handle was published once and reached onQuery once
C14_Witness ==
  /\ last.op = "transcription"
  /\ last.flag
  /\ last.h = 2
  /\ convs[1].ended
  /\ conversation = 2
  /\ Len(Published("assistant:transcription")) = 1
  /\ Len(Called("onQuery")) = 1

\* ------------------------------------------------------------------ C15
\* C15: an adapter-level or conversation-level "error" event changes no
\* session state and has no outward effect; the handle stays open, so later
\* events on it are still relayed.
C15_ErrorEventsInert ==
  last.op \in {"error", "adapter-error"} =>
    /\ last.effects = <<>>
    /\ ~last.thrown
    /\ conversation = last.preConversation
    /\ textQuery = last.preTextQuery
    /\ last.op = "error" => (~convs[last.h].ended /\ convs[last.h].listeners = 1)

\* C15 witness: a conversation error on the stored conversation left it stored
C15_Witness ==
  /\ last.op = "error"
  /\ conversation = last.h
  /\ ~convs[last.h].ended

\* ------------------------------------------------------------------ C16
\* C16 (as claimed): once initialize has succeeded twice, one invoke command
\* publishes two stop-audio-playback notifications, issues two start commands
\* and calls onQuery twice, and one feed-audio command writes the buffer to
\* the stored conversation twice.
C16_DoubleRegistration ==
  /\ (last.op = "assistant:invoke" /\ ipcListeners = 2) =>
       /\ Len(Published("assistant:stopAudioResponsePlayback")) = 2
       /\ Len(Starts) = 2
       /\ Len(Called("onQuery")) = 2
  /\ (last.op = "assistant:micAudioData" /\ ipcListeners = 2 /\ conversation # 0) =>
       last.effects = <<WriteCmd(conversation, last.bytes), WriteCmd(conversation, last.bytes)>>

\* ------------------------------------------------------------------ C17
\* C17 (as claimed): while the adapter is unset after a failed initialize,
\* every operation that depends on it fails loudly; in particular a host
\* invoke command that follows the failed initialize results in an explicit
\* error, as a direct invokeAssistant call does.
C17_InvokeCommandFailsLoudly ==
  [][(/\ last.op = "initialize"
      /\ ~last.flag
      /\ assistantApiDelegate = 0
      /\ last'.op \in InvokeOps) => last'.thrown]_vars

\* ------------------------------------------------------------------ C18
\* C18 (as claimed): no command is issued to a conversation handle whose
\* "ended" event has been processed: neither feed-audio nor end-conversation
\* writes to or signals end on an ended handle.
C18_NoCommandAfterEnded ==
  \A i \in DOMAIN last.effects :
    last.effects[i].kind \in {"write", "end"} => ~convs[last.effects[i].h].ended

\* ------------------------------------------------------------------ C19
\* C19: the host-command listeners exist only if an adapter has been
\* constructed, so an invoke command that is handled always finds the adapter
\* set: every listener run issues its start command, and the only exception
\* that can leave the listener is one thrown by the handler.
C19_ListenersImplyAdapter ==
  /\ ipcListeners > 0 => assistantApiDelegate # 0
  /\ (last.op = "assistant:invoke" /\ ipcListeners > 0) =>
       /\ Len(Starts) >= 1
       /\ Len(Starts) = Len(Called("onQuery"))
       /\ last.thrown => last.throws

\* C19 witness: an invoke command was handled by two registered listeners
C19_Witness ==
  /\ last.op = "assistant:invoke"
  /\ ipcListeners = 2
  /\ Len(Starts) = 2
  /\ ~last.thrown

\* ------------------------------------------------------------------ C20
\* C20: every "ended" event the adapter emits on a handle is answered, in the
\* same step, by one conversation-ended notification and one
\* onConversationEnded call, whether or not the host ended the conversation
\* before or a newer turn replaced the handle; an end-conversation command
\* itself notifies nobody.
C20_EndedAlwaysReported ==
  /\ last.op = "ended" =>
       /\ Published("assistant:conversationEnded")
            = <<Notify("assistant:conversationEnded", Unset, NoBytes, FALSE)>>
       /\ Called("onConversationEnded") = <<Call("onConversationEnded", "", NoBytes)>>
  /\ last.op = "assistant:endConversation" =>
       (Notifications = <<>> /\ HandlerCalls = <<>>)

\* C20 witness: "ended" on a handle that a newer turn had replaced was reported
C20_Witness ==
  /\ last.op = "ended"
  /\ conversation # 0
  /\ conversation # last.h
  /\ Len(Called("onConversationEnded")) = 1

====
